---- MODULE Spec2Model ----
(***************************************************************************)
(* GET_AI_IMAGE action of plugin-nvidia-nim (actionGetAIImage.ts).         *)
(*                                                                         *)
(* Two handler invocations run on one event loop.  An invocation runs      *)
(* without interruption between two awaits, so every action below is one   *)
(* such segment of validate/handler: it starts where an awaited call       *)
(* settles and ends where the next awaited call is issued (or the          *)
(* invocation returns or throws).  The invocations share the wall clock    *)
(* (Date.now()) and the temp directory below the asset directory.          *)
(*                                                                         *)
(* HandlerCallback is an async function that the handler calls without     *)
(* awaiting it, so the callback is a sink: it records what it was given    *)
(* and never throws into the handler.                                      *)
(***************************************************************************)
EXTENDS Integers, Sequences, FiniteSets, TLC

VARIABLES inv, tempFs, now, sumAnalysis, sumText

vars == <<inv, tempFs, now, sumAnalysis, sumText>>

(* ------------------------------ bounds --------------------------------- *)

\* Date.now() takes the values 0..MaxTime.
MaxTime == 1

\* Longest possible_sources mapping drawn for the summary.
MaxSources == 3

Procs == {1, 2}

(* --------------------------- program constants ------------------------- *)

\* if (imageB64.length < 180000)
InlineLimit == 180000

(* ------------------------------ requests ------------------------------- *)

\* message.content.text: absent, "", a data URI of an image whose base64
\* payload has b64 characters, or a reference to a file name.
NoText(kind) == [kind |-> kind, b64 |-> 0, file |-> ""]

InlineText(len) == [kind |-> "inline", b64 |-> len, file |-> ""]

FileText(name) == [kind |-> "file", b64 |-> 0, file |-> name]

InlineLens == {InlineLimit - 1, InlineLimit}

\* The asset directory: file name |-> size in bytes.  "missing.jpg" is not
\* in it.  No invocation writes to the asset directory itself.
AssetDir == [n \in {"small.jpg", "large.jpg"} |->
               IF n = "small.jpg" THEN 134997 ELSE 134998]

FileNames == DOMAIN AssetDir \cup {"missing.jpg"}

Texts == {NoText("absent"), NoText("empty")}
         \cup {InlineText(l) : l \in InlineLens}
         \cup {FileText(n) : n \in FileNames}

Contents == [type : {"GET_AI_IMAGE", "text"}, text : Texts]

\* !content.text
Falsy(text) == text.kind \in {"absent", "empty"}

(* ------------------------------- paths --------------------------------- *)

NoPath == <<"", "", 0, "">>

\* path.join(tempDir, `temp_${Date.now()}.jpg`)
TempName(t) == <<"temp", "temp_", t, ".jpg">>

\* path.join(tempDir, `temp_${Date.now()}_large.jpg`)
LargeNameFixed(t) == <<"temp", "temp_", 0, "_large.jpg">>

LargeName(t) == <<"temp", "temp_", t, "_large.jpg">>

\* path.join(aiImageDir, parsedPrompt.mediaFile)
AssetPath(name) == <<"aiimage", name, 0, "">>

\* fs.existsSync(mediaPath) for a path of the asset directory
MediaExistsAlways(name) == TRUE

MediaExists(name) == name \in DOMAIN AssetDir

\* fs.writeFileSync(path, data)
WriteFile(fs, path, data) ==
  [q \in DOMAIN fs \cup {path} |-> IF q = path THEN data ELSE fs[q]]

\* if (fs.existsSync(path)) fs.unlinkSync(path)
UnlinkIfExists(fs, path) == [q \in DOMAIN fs \ {path} |-> fs[q]]

(* ------------------------------- bytes --------------------------------- *)

NoBytes == [bytes |-> "", length |-> 0]

\* The image pasted into the chat of invocation p.
ChatImage(p) == IF p = 1 THEN "chat-1" ELSE "chat-2"

\* Buffer.from(imageB64, 'base64'): 3 bytes for every 4 characters
FromBase64(b) == [bytes |-> b.bytes, length |-> (b.length * 3) \div 4]

\* fileData.toString('base64'): 4 characters for every 3 bytes, padded
ToBase64(d) == [bytes |-> d.bytes, length |-> 4 * ((d.length + 2) \div 3)]

(* ------------------------------- errors -------------------------------- *)

\* An error that is no NimError: code, message, no originalError.
Error(code, message) == [code |-> code, message |-> message, cause |-> <<>>]

\* new NimError(code, message, severity, { originalError })
NimError(code, message, original) ==
  [code |-> code, message |-> message, cause |-> original]

FileNotFound == NimError("FILE_NOT_FOUND", "Media file not found", <<>>)

\* The inner catch: throw new NimError(API_ERROR, ..., { originalError: error })
ApiError(error) ==
  NimError("API_ERROR", "Failed to get response from NVIDIA NIM", <<error>>)

\* The outer catch: throw new NimError(NETWORK_ERROR, ..., { originalError: error })
OuterCatchRethrow(error) == error

OuterCatch(error) ==
  NimError("NETWORK_ERROR", "Failed to execute GET_AI_IMAGE action", <<error>>)

(* ------------------------------ summary -------------------------------- *)

\* Confidences and probabilities are counted in 1/10000.
\* (x * 100).toFixed(2): the percentage and its two decimals.
ToFixed2(x) == <<x \div 100, x % 100>>

\* sources.reduce((prev, curr) => curr[1] > prev[1] ? curr : prev), on the
\* entries <<name, confidence>> in Object.entries order; sources is not empty.
RECURSIVE ReduceLast(_, _, _)
ReduceLast(sources, i, prev) ==
  IF i > Len(sources) THEN prev
  ELSE ReduceLast(sources, i + 1,
                  IF sources[i][2] >= prev[2] THEN sources[i] ELSE prev)

RECURSIVE Reduce(_, _, _)
Reduce(sources, i, prev) ==
  IF i > Len(sources) THEN prev
  ELSE Reduce(sources, i + 1,
              IF sources[i][2] > prev[2] THEN sources[i] ELSE prev)

TopSourceLast(sources) == ReduceLast(sources, 2, sources[1])

TopSource(sources) == Reduce(sources, 2, sources[1])

NoSummary == [aiProbability |-> <<0, 0>>, named |-> FALSE,
              source |-> "", sourceConfidence |-> <<0, 0>>]

\* analysisText: "AI Image Analysis: Image is <aiProbability>% likely to be
\* AI-generated. " followed by "Most likely source: <source>
\* (<sourceConfidence>% confidence)." when named, and by "No specific AI
\* source identified." otherwise.
AnalysisText(analysis) ==
  LET topSource == TopSource(analysis.possible_sources)
      named == topSource[1] # "none"
  IN [aiProbability |-> ToFixed2(analysis.is_ai_generated),
      named |-> named,
      source |-> IF named THEN topSource[1] ELSE "",
      sourceConfidence |-> IF named THEN ToFixed2(topSource[2]) ELSE <<0, 0>>]

(* ------------------------- external collaborators ---------------------- *)

\* validateNvidiaNimConfig(runtime) throws this when the settings are invalid.
ConfigError == Error("CONFIG", "NVIDIA NIM configuration validation failed")

\* parseAIImagePrompt(text, attachments, apiKey): a data URI in the text
\* gives isBase64, a file reference gives the file name, and a text with
\* neither is rejected.
ParseError == Error("PARSE", "No image found in prompt")

ParseAIImagePrompt(text) ==
  [mediaFile |-> text.file, isBase64 |-> text.kind = "inline"]

\* The identifiers AssetManager.uploadAsset can return.
AssetIds == {"asset-a", "asset-b"}

UploadError == Error("UPLOAD", "Failed to upload asset")

\* fs.readFileSync of a path that does not exist
Enoent == Error("ENOENT", "no such file or directory")

\* axios.post rejects: no response, or a status that is not 2xx.
AxiosError == Error("AXIOS", "Request failed")

\* The body has no data[0]: analysis.is_ai_generated reads undefined.
UndefinedError == Error("TypeError", "Cannot read properties of undefined")

\* sources.reduce on no entries, without an initial value
ReduceError == Error("TypeError", "Reduce of empty array with no initial value")

Analysis(sources) ==
  [is_ai_generated |-> 9994, possible_sources |-> sources, status |-> "SUCCESS"]

\* What the POST can settle with: a rejection, a body with an empty data
\* list, and bodies whose first result has no source, only "none", or two
\* sources of equal confidence.
PostOutcomes ==
  {[ok |-> FALSE, data |-> <<>>], [ok |-> TRUE, data |-> <<>>]}
  \cup {[ok |-> TRUE, data |-> <<Analysis(s)>>] :
          s \in {<<>>, <<<<"none", 10000>>>>,
                 <<<<"stablediffusionxl", 8875>>, <<"dalle", 8875>>>>}}

(* ----------------------------- validate -------------------------------- *)

\* getAIImageAction.validate
validate(content) ==
  IF content.type # "GET_AI_IMAGE" THEN TRUE
  ELSE IF Falsy(content.text) THEN FALSE
  ELSE TRUE

(* --------------------------- invocation state -------------------------- *)

NoPayload == [kind |-> "", input |-> ""]

NoHeaders == [ContentType |-> "", AssetReferences |-> ""]

\* One invocation: the message and callback it was given, where it stands
\* (pc), the handler's locals, the two values it read from Date.now()
\* (mediaNow at line 184, tempNow at line 299), and what left it (calls
\* issued, callback responses, return value or thrown error).
NewInvocation(content, callback) ==
  [pc |-> "received", content |-> content, callback |-> callback,
   validateResult |-> FALSE, config |-> "", parsedPrompt |-> <<>>,
   imageB64 |-> NoBytes, fileData |-> <<>>, mediaPath |-> NoPath,
   mediaNow |-> <<>>, tempNow |-> <<>>,
   tempPath |-> NoPath, uploadPath |-> NoPath, uploadRead |-> <<>>,
   uploadedAsset |-> "", payload |-> NoPayload, headers |-> NoHeaders,
   response |-> <<>>, uploads |-> 0, posts |-> 0,
   callbackLog |-> <<>>, returned |-> "", thrown |-> <<>>]

Init ==
  /\ inv \in [Procs -> {NewInvocation(c, cb) : c \in Contents, cb \in BOOLEAN}]
  /\ tempFs = <<>>
  /\ now = 0
  /\ sumAnalysis = <<>>
  /\ sumText = <<>>

\* callback({ text: analysisText, success: true, mediaPath, data: processedData })
SuccessResponse(r, analysis) ==
  [success |-> TRUE, text |-> AnalysisText(analysis), errorText |-> "",
   mediaPath |-> r.mediaPath, analysis |-> <<analysis>>, error |-> ""]

\* callback({ text: `Error analyzing image: ${message}`, success: false,
\*            mediaPath, data: { error: message } })
FailureResponseAsSuccess(r, error) ==
  [success |-> TRUE, text |-> NoSummary, errorText |-> error.message,
   mediaPath |-> r.mediaPath, analysis |-> <<>>, error |-> error.message]

FailureResponse(r, error) ==
  [success |-> FALSE, text |-> NoSummary, errorText |-> error.message,
   mediaPath |-> r.mediaPath, analysis |-> <<>>, error |-> error.message]

\* if (callback) { callback(response) }
Notify(r, response) ==
  IF r.callback THEN [r EXCEPT !.callbackLog = Append(@, response)] ELSE r

\* An error thrown inside the outer try: the outer catch wraps it and the
\* invocation ends by throwing the wrapper.
Throw(r, error) == [r EXCEPT !.pc = "raised", !.thrown = <<OuterCatch(error)>>]

\* An error thrown inside the inner try: the inner catch notifies the
\* callback and throws ApiError, which the outer catch receives.
InnerCatch(r, error) == Throw(Notify(r, FailureResponse(r, error)), ApiError(error))

Set(p, r) == inv' = [inv EXCEPT ![p] = r]

(* ------------------------------ the clock ------------------------------ *)

\* Time passes between two segments.
Tick ==
  /\ now < MaxTime
  /\ now' = now + 1
  /\ UNCHANGED <<inv, tempFs, sumAnalysis, sumText>>

(* ------------------------------ validate ------------------------------- *)

Validate(p) ==
  /\ inv[p].pc = "received"
  /\ Set(p, [inv[p] EXCEPT !.pc = "validated",
                           !.validateResult = validate(inv[p].content)])
  /\ UNCHANGED <<tempFs, now, sumAnalysis, sumText>>

(* ------------------------------- handler ------------------------------- *)

\* The runtime runs the handler of a message that validate accepted.
\* Lines 103-127, up to: await validateNvidiaNimConfig(runtime).
HandlerStart(p) ==
  /\ inv[p].pc = "validated"
  /\ inv[p].validateResult
  /\ Set(p, [inv[p] EXCEPT !.pc = "config"])
  /\ UNCHANGED <<tempFs, now, sumAnalysis, sumText>>

\* Lines 127-148, up to: await parseAIImagePrompt(...).
ConfigDone(p) ==
  /\ inv[p].pc = "config"
  /\ \E valid \in BOOLEAN :
       Set(p, IF valid
              THEN [inv[p] EXCEPT !.pc = "parse", !.config = "valid"]
              ELSE Throw([inv[p] EXCEPT !.config = "invalid"], ConfigError))
  /\ UNCHANGED <<tempFs, now, sumAnalysis, sumText>>

\* if (imageB64.length < 180000)
UseInlineUpTo(imageB64) == imageB64.length <= InlineLimit

UseInline(imageB64) == imageB64.length < InlineLimit

\* Lines 274-328 for an image below the limit: the inline payload, and the
\* POST is issued.
PostInline(r) ==
  [r EXCEPT !.payload = [kind |-> "base64", input |-> r.imageB64.bytes],
            !.headers = [ContentType |-> "application/json",
                         AssetReferences |-> ""],
            !.posts = @ + 1,
            !.pc = "post"]

\* Lines 274-306, from the resolved image r (written to the temp directory
\* fs when it came from the chat) to the first call of the classification:
\* the POST of an inline payload, or AssetManager.uploadAsset after staging
\* an image from the chat in temp_<Date.now()>_large.jpg.  The clock may
\* have advanced since the resolution read it.
StartClassify(p, r, fs) ==
  IF UseInline(r.imageB64)
  THEN /\ Set(p, PostInline(r))
       /\ tempFs' = fs
       /\ now' = now
  ELSE IF r.parsedPrompt[1].isBase64
  THEN \E t \in {now, IF now < MaxTime THEN now + 1 ELSE now} :
         /\ Set(p, [r EXCEPT !.tempNow = <<t>>,
                             !.tempPath = LargeName(t),
                             !.uploadPath = LargeName(t),
                             !.uploads = @ + 1,
                             !.pc = "upload"])
         /\ tempFs' = WriteFile(fs, LargeName(t), r.fileData[1])
         /\ now' = t
  ELSE /\ Set(p, [r EXCEPT !.uploadPath = r.mediaPath,
                           !.uploads = @ + 1,
                           !.pc = "upload"])
       /\ tempFs' = fs
       /\ now' = now

\* Lines 148-222: the parsed prompt; an image from the chat is decoded,
\* written to temp_<Date.now()>.jpg and classified; for a file reference
\* the handler awaits fs.promises.access(mediaPath).
ParseDone(p) ==
  /\ inv[p].pc = "parse"
  /\ LET text == inv[p].content.text
         parsedPrompt == ParseAIImagePrompt(text)
         r == [inv[p] EXCEPT !.parsedPrompt = <<parsedPrompt>>]
     IN IF Falsy(text)
        THEN /\ Set(p, Throw(inv[p], ParseError))
             /\ UNCHANGED <<tempFs, now>>
        ELSE IF parsedPrompt.isBase64
        THEN LET imageB64 == [bytes |-> ChatImage(p), length |-> text.b64]
                 fileData == FromBase64(imageB64)
                 mediaPath == TempName(now)
             IN StartClassify(p,
                              [r EXCEPT !.imageB64 = imageB64,
                                        !.fileData = <<fileData>>,
                                        !.mediaNow = <<now>>,
                                        !.mediaPath = mediaPath],
                              WriteFile(tempFs, mediaPath, fileData))
        ELSE /\ Set(p, [r EXCEPT !.mediaPath = AssetPath(parsedPrompt.mediaFile),
                                 !.pc = "access"])
             /\ UNCHANGED <<tempFs, now>>
  /\ UNCHANGED <<sumAnalysis, sumText>>

\* Lines 222-225: access settled.  A readable file is stat'ed next; an
\* access error is caught and logged, and the handler goes on to line 239.
\* Lines 239-243 for a missing file: await readdir of its directory.
AccessDone(p) ==
  /\ inv[p].pc = "access"
  /\ LET name == inv[p].parsedPrompt[1].mediaFile
     IN Set(p, IF name \in DOMAIN AssetDir
               THEN [inv[p] EXCEPT !.pc = "stat"]
               ELSE IF ~MediaExists(name)
               THEN [inv[p] EXCEPT !.pc = "readdir"]
               ELSE Throw(inv[p], Enoent))
  /\ UNCHANGED <<tempFs, now, sumAnalysis, sumText>>

\* Lines 243-256: readdir settled (its error is caught and logged): throw
\* FILE_NOT_FOUND.
ReaddirDone(p) ==
  /\ inv[p].pc = "readdir"
  /\ Set(p, Throw(inv[p], FileNotFound))
  /\ UNCHANGED <<tempFs, now, sumAnalysis, sumText>>

\* Lines 225-306: stat settled; the file exists, is read and classified.
StatDone(p) ==
  /\ inv[p].pc = "stat"
  /\ LET name == inv[p].parsedPrompt[1].mediaFile
         fileData == [bytes |-> name, length |-> AssetDir[name]]
     IN IF MediaExists(name)
        THEN StartClassify(p,
                           [inv[p] EXCEPT !.fileData = <<fileData>>,
                                          !.imageB64 = ToBase64(fileData)],
                           tempFs)
        ELSE /\ Set(p, [inv[p] EXCEPT !.pc = "readdir"])
             /\ UNCHANGED <<tempFs, now>>
  /\ UNCHANGED <<sumAnalysis, sumText>>

(* ------------------------- AssetManager.uploadAsset -------------------- *)

\* What is at uploadPath: <<bytes>>, or <<>> when there is no such file.
ReadPath(path) ==
  IF path[1] = "aiimage"
  THEN <<[bytes |-> path[2], length |-> AssetDir[path[2]]]>>
  ELSE IF path \in DOMAIN tempFs THEN <<tempFs[path]>> ELSE <<>>

\* uploadAsset reads the file it was given, at some time after it was
\* called and before it settles.
UploadRead(p) ==
  /\ inv[p].pc = "upload"
  /\ Set(p, [inv[p] EXCEPT !.pc = "uploading",
                           !.uploadRead = ReadPath(inv[p].uploadPath)])
  /\ UNCHANGED <<tempFs, now, sumAnalysis, sumText>>

\* Lines 306-328, uploadAsset resolved with an asset id: the staged file is
\* removed, the payload and the headers name the asset, the POST is issued.
Uploaded(r, assetId) ==
  [r EXCEPT !.uploadedAsset = assetId,
            !.payload = [kind |-> "asset_id", input |-> assetId],
            !.headers = [ContentType |-> "application/json",
                         AssetReferences |-> assetId],
            !.posts = @ + 1,
            !.pc = "post"]

\* uploadAsset settles: with an asset id (when it could read the file), or
\* by throwing, which lines 386-413 handle.
UploadDone(p) ==
  /\ inv[p].pc = "uploading"
  /\ \/ /\ inv[p].uploadRead # <<>>
        /\ \E assetId \in AssetIds : Set(p, Uploaded(inv[p], assetId))
        /\ tempFs' = IF inv[p].tempPath # NoPath
                     THEN UnlinkIfExists(tempFs, inv[p].tempPath)
                     ELSE tempFs
     \/ /\ Set(p, InnerCatch(inv[p], UploadError))
        /\ tempFs' = tempFs
  /\ UNCHANGED <<now, sumAnalysis, sumText>>

(* ------------------------------ the POST ------------------------------- *)

\* Lines 328-385, the body of the response: the summary of data[0] goes to
\* the callback and the handler returns true; a body without data[0] or
\* without sources throws a TypeError into the inner catch.
Interpret(r, data) ==
  IF data = <<>> THEN InnerCatch(r, UndefinedError)
  ELSE IF data[1].possible_sources = <<>> THEN InnerCatch(r, ReduceError)
  ELSE [Notify(r, SuccessResponse(r, data[1])) EXCEPT !.pc = "returned",
                                                      !.returned = "true"]

\* axios.post settles.
PostDone(p) ==
  /\ inv[p].pc = "post"
  /\ \E outcome \in PostOutcomes :
       LET r == [inv[p] EXCEPT !.response = <<outcome>>]
       IN Set(p, IF outcome.ok THEN Interpret(r, outcome.data)
                 ELSE InnerCatch(r, AxiosError))
  /\ UNCHANGED <<tempFs, now, sumAnalysis, sumText>>

Next ==
  \/ Tick
  \/ \E p \in Procs :
       \/ Validate(p)
       \/ HandlerStart(p)
       \/ ConfigDone(p)
       \/ ParseDone(p)
       \/ AccessDone(p)
       \/ ReaddirDone(p)
       \/ StatDone(p)
       \/ UploadRead(p)
       \/ UploadDone(p)
       \/ PostDone(p)

Spec == Init /\ [][Next]_vars

(* ----------------------- the summary, on its own ----------------------- *)

SourceNames == {"none", "dalle", "midjourney", "stablediffusionxl"}

Confidences == {0, 1360, 8875}

\* Object.entries(possible_sources) of a mapping that is not empty: at most
\* MaxSources entries, each name once.
Mappings ==
  {s \in UNION {[1..n -> SourceNames \X Confidences] : n \in 1..MaxSources} :
     \A i, j \in DOMAIN s : i # j => s[i][1] # s[j][1]}

InitSummary ==
  /\ inv = [p \in Procs |->
              NewInvocation([type |-> "text", text |-> NoText("absent")], FALSE)]
  /\ tempFs = <<>>
  /\ now = 0
  /\ sumAnalysis \in {<<Analysis(s)>> : s \in Mappings}
  /\ sumText = <<>>

\* Lines 356-369 on the analysis drawn.
Summarize ==
  /\ sumText = <<>>
  /\ sumText' = <<AnalysisText(sumAnalysis[1])>>
  /\ UNCHANGED <<inv, tempFs, now, sumAnalysis>>

SpecSummary == InitSummary /\ [][Summarize]_vars

(* ------------------------------ properties ----------------------------- *)

Terminated(r) == r.pc \in {"returned", "raised"}

\* The request names a file that is not in the asset directory.
MissingFile(r) ==
  r.content.text.kind = "file" /\ r.content.text.file \notin DOMAIN AssetDir

\* The image came from the chat and has been resolved.
InlineResolved(r) ==
  r.parsedPrompt # <<>> /\ r.parsedPrompt[1].isBase64 /\ r.fileData # <<>>

\* uploadAsset was called and threw.
UploadFailed(r) == Terminated(r) /\ r.uploads > 0 /\ r.uploadedAsset = ""

\* The POST was rejected, or its body has no first result or no sources.
PostFailed(r) ==
  /\ r.response # <<>>
  /\ \/ ~r.response[1].ok
     \/ r.response[1].data = <<>>
     \/ r.response[1].data[1].possible_sources = <<>>

RemoteFailed(r) == UploadFailed(r) \/ PostFailed(r)

\* The error of the remote call that failed.
RemoteError(r) ==
  IF UploadFailed(r) THEN UploadError
  ELSE IF ~r.response[1].ok THEN AxiosError
  ELSE IF r.response[1].data = <<>> THEN UndefinedError
  ELSE ReduceError

\* C1: for every request whose text is empty or absent, whatever its type
\* tag, validate returns false and no remote call is made for the request.
C1_EmptyTextIsRejected ==
  \A p \in Procs :
    (inv[p].pc # "received" /\ Falsy(inv[p].content.text))
      => /\ ~inv[p].validateResult
         /\ inv[p].uploads = 0
         /\ inv[p].posts = 0

\* C2 as stated: an invocation that resolves a reference to a missing file
\* makes no outbound call and raises FileNotFound.
C2_RaisesFileNotFound ==
  \A p \in Procs :
    (MissingFile(inv[p]) /\ inv[p].parsedPrompt # <<>>)
      => /\ inv[p].uploads = 0
         /\ inv[p].posts = 0
         /\ Terminated(inv[p])
              => /\ inv[p].thrown # <<>>
                 /\ inv[p].thrown[1].code = "FILE_NOT_FOUND"

\* C2, amended: an invocation that resolves a reference to a missing file
\* makes no outbound call at any point, and ends by raising NetworkError
\* whose recorded cause is FileNotFound.
C2_MissingFileAborts ==
  \A p \in Procs :
    (MissingFile(inv[p]) /\ inv[p].parsedPrompt # <<>>)
      => /\ inv[p].uploads = 0
         /\ inv[p].posts = 0
         /\ Terminated(inv[p])
              => /\ inv[p].pc = "raised"
                 /\ inv[p].thrown # <<>>
                 /\ inv[p].thrown[1].code = "NETWORK_ERROR"
                 /\ inv[p].thrown[1].cause # <<>>
                 /\ inv[p].thrown[1].cause[1].code = "FILE_NOT_FOUND"

C2_Witness ==
  \E p \in Procs :
    /\ MissingFile(inv[p])
    /\ inv[p].parsedPrompt # <<>>
    /\ inv[p].pc = "raised"

\* What a supplied callback holds after a remote failure: one response,
\* success=false, carrying the message of the error.
NotifiedOfFailure(r) ==
  r.callback
    => /\ Len(r.callbackLog) = 1
       /\ ~r.callbackLog[1].success
       /\ r.callbackLog[1].errorText = RemoteError(r).message
       /\ r.callbackLog[1].error = RemoteError(r).message

\* C3 as stated: on a remote-call failure a supplied callback receives
\* success=false with the error message, and the invocation raises ApiError
\* to its caller.
C3_RaisesApiError ==
  \A p \in Procs :
    (Terminated(inv[p]) /\ RemoteFailed(inv[p]))
      => /\ NotifiedOfFailure(inv[p])
         /\ inv[p].thrown # <<>>
         /\ inv[p].thrown[1].code = "API_ERROR"

\* C3, amended: on a remote-call failure a supplied callback receives
\* success=false with the error message, and the invocation raises
\* NetworkError whose recorded cause is the ApiError, which in turn records
\* the error of the remote call.
C3_RemoteFailureIsReported ==
  \A p \in Procs :
    (Terminated(inv[p]) /\ RemoteFailed(inv[p]))
      => /\ NotifiedOfFailure(inv[p])
         /\ inv[p].pc = "raised"
         /\ inv[p].thrown # <<>>
         /\ inv[p].thrown[1].code = "NETWORK_ERROR"
         /\ inv[p].thrown[1].cause # <<>>
         /\ inv[p].thrown[1].cause[1].code = "API_ERROR"
         /\ inv[p].thrown[1].cause[1].cause = <<RemoteError(inv[p])>>

C3_Witness ==
  \E p, q \in Procs :
    /\ inv[p].callback /\ inv[p].pc = "raised" /\ UploadFailed(inv[p])
    /\ inv[q].callback /\ inv[q].pc = "raised" /\ PostFailed(inv[q])
    /\ inv[q].response[1].ok

\* C4: when uploadAsset settles, by resolving or by throwing, for an
\* invocation that staged its image in temp_<now>_large.jpg, that file no
\* longer exists.
C4_StagedFileRemovedAfterUpload ==
  [][\A p \in Procs :
       (inv[p].pc = "uploading" /\ inv'[p].pc # "uploading"
          /\ inv[p].tempPath # NoPath)
         => inv[p].tempPath \notin DOMAIN tempFs']_vars

\* C5: when an invocation that resolved an image from the chat has
\* terminated, its temp_<now>.jpg no longer exists.
C5_TempFileRemovedAtEnd ==
  \A p \in Procs :
    (InlineResolved(inv[p]) /\ Terminated(inv[p]))
      => inv[p].mediaPath \notin DOMAIN tempFs

\* The error first thrown inside an invocation that raised.
OriginalError(r) ==
  IF r.config = "invalid" THEN ConfigError
  ELSE IF Falsy(r.content.text) THEN ParseError
  ELSE IF MissingFile(r) THEN FileNotFound
  ELSE ApiError(RemoteError(r))

\* C6: an invocation ends by returning true or by raising NetworkError
\* whose recorded cause is the error first thrown inside it; it never
\* returns false.
C6_OnlyNetworkErrorEscapes ==
  \A p \in Procs :
    /\ inv[p].returned \in {"", "true"}
    /\ Terminated(inv[p])
         => \/ /\ inv[p].pc = "returned"
               /\ inv[p].returned = "true"
               /\ inv[p].thrown = <<>>
            \/ /\ inv[p].pc = "raised"
               /\ inv[p].returned = ""
               /\ inv[p].thrown # <<>>
               /\ inv[p].thrown[1].code = "NETWORK_ERROR"
               /\ inv[p].thrown[1].cause = <<OriginalError(inv[p])>>

C6_Witness ==
  \E p, q \in Procs :
    /\ inv[p].pc = "raised" /\ inv[p].thrown[1].cause[1].code = "API_ERROR"
    /\ inv[q].pc = "raised" /\ inv[q].thrown[1].cause[1].code = "CONFIG"

\* C7: an invocation that was given a callback and has resolved its prompt
\* has called the callback by the time it terminates: with success=true
\* when it returns, with success=false when it raises.
C7_CallbackBeforeTermination ==
  \A p \in Procs :
    (inv[p].callback /\ inv[p].parsedPrompt # <<>> /\ Terminated(inv[p]))
      => /\ inv[p].callbackLog # <<>>
         /\ inv[p].callbackLog[Len(inv[p].callbackLog)].success
              = (inv[p].pc = "returned")

\* C8: once the image is resolved, its base64 length L alone decides the
\* mode.  L < 180000: no upload, and the POST carries the image inline and
\* no NVCF-INPUT-ASSET-REFERENCES header.  L >= 180000: exactly one upload,
\* settled with an asset id before the POST, whose payload and
\* NVCF-INPUT-ASSET-REFERENCES header both carry that id.  At most one POST.
C8_ModeByLength ==
  \A p \in Procs :
    LET r == inv[p]
    IN /\ r.posts <= 1
       /\ r.fileData = <<>> => (r.uploads = 0 /\ r.posts = 0)
       /\ (r.fileData # <<>> /\ r.imageB64.length < 180000)
            => /\ r.uploads = 0
               /\ r.posts = 1
               /\ r.payload = [kind |-> "base64", input |-> r.fileData[1].bytes]
               /\ r.headers.AssetReferences = ""
       /\ (r.fileData # <<>> /\ r.imageB64.length >= 180000)
            => /\ r.uploads = 1
               /\ r.posts = 1
                    => /\ r.uploadedAsset \in AssetIds
                       /\ r.payload = [kind |-> "asset_id",
                                       input |-> r.uploadedAsset]
                       /\ r.headers.AssetReferences = r.uploadedAsset

C8_Witness ==
  \E p, q \in Procs :
    /\ InlineResolved(inv[p]) /\ inv[p].imageB64.length = 179999
    /\ inv[p].posts = 1
    /\ InlineResolved(inv[q]) /\ inv[q].imageB64.length = 180000
    /\ inv[q].posts = 1

\* The first entry of sources with the greatest confidence.
FirstMaximum(sources) ==
  CHOOSE i \in DOMAIN sources :
    /\ \A j \in DOMAIN sources : sources[j][2] <= sources[i][2]
    /\ \A j \in 1..(i - 1) : sources[j][2] < sources[i][2]

\* C9: the summary is about the entry of greatest confidence, the first of
\* them in iteration order; it says that no source was identified exactly
\* when that entry is named "none", and names the entry and its confidence
\* otherwise.
C9_FirstMaximumWins ==
  sumText # <<>>
    => LET sources == sumAnalysis[1].possible_sources
           top == sources[FirstMaximum(sources)]
       IN /\ sumText[1].named = (top[1] # "none")
          /\ sumText[1].named
               => /\ sumText[1].source = top[1]
                  /\ sumText[1].sourceConfidence = <<top[2] \div 100, top[2] % 100>>

C9_Witness ==
  /\ sumText # <<>>
  /\ LET sources == sumAnalysis[1].possible_sources
     IN /\ Len(sources) = 3
        /\ sources[1][2] < sources[2][2]
        /\ sources[2][2] = sources[3][2]
        /\ sources[2][1] # "none"
        /\ sumText[1].source = sources[2][1]

\* No two invocations that resolved an image from the chat read the same
\* time at line 184, or the same time at line 299.
DistinctTimestamps ==
  \A p, q \in Procs :
    (p # q /\ InlineResolved(inv[p]) /\ InlineResolved(inv[q]))
      => /\ inv[p].mediaNow # inv[q].mediaNow
         /\ (inv[p].tempNow # <<>> /\ inv[q].tempNow # <<>>)
              => inv[p].tempNow # inv[q].tempNow

\* What uploadAsset read for an invocation with an image from the chat is
\* that invocation's image.
UploadsOwnImage ==
  \A p \in Procs :
    (InlineResolved(inv[p]) /\ inv[p].uploads = 1 /\ inv[p].pc # "upload")
      => inv[p].uploadRead = inv[p].fileData

\* A step that overwrites or removes a temp file is a step of the
\* invocation whose image the file held.
TouchesOwnFiles ==
  \A path \in DOMAIN tempFs :
    (path \notin DOMAIN tempFs' \/ tempFs'[path] # tempFs[path])
      => \E p \in Procs :
           /\ tempFs[path].bytes = ChatImage(p)
           /\ inv'[p] # inv[p]

\* C10: while the invocations with images from the chat have read distinct
\* timestamps, no invocation overwrites or removes a temp file of another,
\* and each uploads its own image.
C10_DistinctTimestampsIsolate ==
  /\ [](DistinctTimestamps => UploadsOwnImage)
  /\ [][DistinctTimestamps' => TouchesOwnFiles]_vars

C10_Witness ==
  /\ DistinctTimestamps
  /\ \A p \in Procs :
       /\ InlineResolved(inv[p])
       /\ inv[p].tempNow # <<>>
       /\ inv[p].posts = 1

\* C10, second half: with equal timestamps an invocation can upload the
\* image of the other one.  This state is reachable.
SameTimestampCollision ==
  \E p \in Procs :
    /\ InlineResolved(inv[p])
    /\ inv[p].uploadRead # <<>>
    /\ inv[p].uploadRead # inv[p].fileData
====
